---------------------------- MODULE Spec2Model ----------------------------
(***************************************************************************)
(* The markdown token-to-tree builder of src/markdown/from_markdown.js:    *)
(* fromMarkdown, MarkdownParseState, the token-type registry               *)
(* (tokenTypeInfo, summarizeTokens, registerTokens) and the parse          *)
(* declarations of the default node and mark types.                        *)
(*                                                                         *)
(* Strings the code takes apart (token content, attribute values, tags)    *)
(* are sequences of one-character strings; names that are only compared    *)
(* or suffixed (token type names, node and mark type names) are strings.   *)
(***************************************************************************)
EXTENDS Integers, Sequences, FiniteSets, TLC

VARIABLES
  schema,      \* the schema of the parses, by name (see Declarations)
  tables,      \* the handler tables summarizeTokens has returned, by reference
  cached,      \* schema.cached: "markdownTokens" is in its domain once stored
  phase,       \* "idle", "parsing", "unwinding", "returned", "failed"
  tokens,      \* state.tokens: the token sequence of the running parse
  calls,       \* the i of each parseTokens activation, innermost last
  stack,       \* state.stack: frames [type, attrs, content], top last
  marks,       \* state.marks: the active Mark Set
  tokenTypes,  \* state.tokenTypes: a reference into tables, 0 while unset
  doc,         \* fromMarkdown's local doc
  error,       \* the error the call raised, NoError while none
  scans,       \* history: how many times summarizeTokens ran on the schema
  cacheHit,    \* history: the running parse took its table from the cache
  dispatched,  \* history: handlers invoked by the running parse
  stackAtEnd,  \* history: state.stack when parseTokens(tokens) returned
  closes,      \* history: closeNode calls made by fromMarkdown's unwind loop
  maxFrames    \* history: the most frames state.stack has held in this parse

vars == <<schema, tables, cached, phase, tokens, calls, stack, marks, tokenTypes,
          doc, error, scans, cacheHit, dispatched, stackAtEnd, closes,
          maxFrames>>

----------------------------------------------------------------------------
(* Bounds of the model. *)

\* Tokens of an input sequence, children of inline tokens included.
MaxTokens == 3

\* summarizeTokens runs per schema before the model stops starting parses
\* (reached only by a schema whose registry build fails every time).
MaxScans == 2

----------------------------------------------------------------------------
(* JavaScript values held in attribute objects. *)

JStr(s) == [t |-> "string", s |-> s, n |-> 0]
JNum(n) == [t |-> "number", s |-> <<>>, n |-> n]
JNaN == [t |-> "NaN", s |-> <<>>, n |-> 0]
JUndefined == [t |-> "undefined", s |-> <<>>, n |-> 0]
JNull == [t |-> "null", s |-> <<>>, n |-> 0]

\* JavaScript truthiness, as the || of lines 200, 228, 229 tests it.
Truthy(v) ==
  CASE v.t = "string" -> v.s # <<>>
    [] v.t = "number" -> v.n # 0
    [] OTHER -> FALSE

\* a || b
OrElse(a, b) == IF Truthy(a) THEN a ELSE b

Digits == <<"0", "1", "2", "3", "4", "5", "6", "7", "8", "9">>

IsDigit(c) == \E d \in 1..10 : Digits[d] = c

DigitValue(c) == (CHOOSE d \in 1..10 : Digits[d] = c) - 1

RECURSIVE DecimalValue(_)
DecimalValue(s) ==
  IF s = <<>> THEN 0
  ELSE 10 * DecimalValue(SubSeq(s, 1, Len(s) - 1)) + DigitValue(s[Len(s)])

\* Number(v) on the values the order attribute can take: the empty string is
\* 0, a string of decimal digits is its value, any other string is NaN.
Number(v) ==
  CASE v.t = "number" -> v
    [] v.t = "NaN" -> v
    [] v.t = "null" -> JNum(0)
    [] v.t = "undefined" -> JNaN
    [] v.t = "string" ->
         IF \A k \in 1..Len(v.s) : IsDigit(v.s[k])
         THEN JNum(DecimalValue(v.s))
         ELSE JNaN

----------------------------------------------------------------------------
(* Tokens, nodes, marks, frames. *)

NoAttrs == <<>>

\* A markdown-it token: attrs is a sequence of <<name, value>> pairs.
Tok(type, content, attrs, children, tag, markup) ==
  [type |-> type, content |-> content, attrs |-> attrs,
   children |-> children, tag |-> tag, markup |-> markup]

\* A node: a text run has type "text" and its characters in text; any other
\* node has its children in content.
MkNode(type, attrs, content, nodeMarks, text) ==
  [type |-> type, attrs |-> attrs, content |-> content,
   marks |-> nodeMarks, text |-> text]

NoDoc == MkNode("undefined", NoAttrs, <<>>, <<>>, <<>>)

MkMark(type, attrs) == [type |-> type, attrs |-> attrs]

Frame(type, attrs, content) ==
  [type |-> type, attrs |-> attrs, content |-> content]

noMarks == <<>>

NoError == [kind |-> "none", name |-> ""]


----------------------------------------------------------------------------
(* The Mark Set operations and the schema's factories.  They live in       *)
(* ../model, outside this file; they are modelled as the specification     *)
(* describes them (sections 3, 4.3 and 6).                                 *)

\* mark.addToSet(set): no-op when a mark of identical type and attributes is
\* present, appended otherwise.
addToSet(mark, set) ==
  IF \E k \in 1..Len(set) : set[k] = mark THEN set ELSE Append(set, mark)

\* markType.removeFromSet(set): every mark of that type removed, whatever
\* its attributes.
removeFromSet(type, set) == SelectSeq(set, LAMBDA m : m.type # type)

\* Mark.sameSet(a, b): the same marks, regardless of order.
sameSet(a, b) ==
  {a[k] : k \in 1..Len(a)} = {b[k] : k \in 1..Len(b)}

\* markType.create(attrs)
create(type, attrs) == MkMark(type, attrs)

\* schema.text(text, marks)
SchemaText(text, textMarks) == MkNode("text", NoAttrs, <<>>, textMarks, text)

\* nodeType.createAutoFill(attrs, content, marks)
createAutoFill(type, attrs, content, nodeMarks) ==
  MkNode(type, attrs, content, nodeMarks, <<>>)

isText(node) == node.type = "text"

\* a.copy(text): the text run a with its text replaced.
CopyText(a, text) == [a EXCEPT !.text = text]

----------------------------------------------------------------------------
(* MarkdownParseState.  A parse state s is [stack, marks, err, ret]: err   *)
(* is the exception an operation threw (the operations after it in the     *)
(* same handler do not run), ret the value the last operation returned.    *)

PState(st, mk) ==
  [stack |-> st, marks |-> mk, err |-> NoError, ret |-> NoDoc,
   peak |-> Len(st)]

TypeError == [kind |-> "TypeError", name |-> ""]

\* Fault: maybeMerge that does not look at the marks.
maybeMerge_AnyMarks(a, b) ==
  IF isText(a) /\ isText(b) THEN CopyText(a, a.text \o b.text) ELSE NoDoc

\* Fault: maybeMerge that returns the first run as it is.
maybeMerge_DropSecond(a, b) ==
  IF isText(a) /\ isText(b) /\ sameSet(a.marks, b.marks)
  THEN a
  ELSE NoDoc

\* maybeMerge(a, b): the merged run, or undefined (NoDoc).
maybeMerge(a, b) ==
  IF isText(a) /\ isText(b) /\ sameSet(a.marks, b.marks)
  THEN CopyText(a, a.text \o b.text)
  ELSE NoDoc

\* state.top() of a non-empty stack.
top(s) == s.stack[Len(s.stack)]

\* The stack with its top frame's content replaced.
WithTopContent(st, content) ==
  [st EXCEPT ![Len(st)] = [@ EXCEPT !.content = content]]

\* Fault: push that puts the new child first.
push_Prepend(s, elt) ==
  IF Len(s.stack) > 0
  THEN [s EXCEPT !.stack = WithTopContent(@, <<elt>> \o top(s).content)]
  ELSE s

\* state.push(elt): nothing when the stack is empty.
push(s, elt) ==
  IF Len(s.stack) > 0
  THEN [s EXCEPT !.stack = WithTopContent(@, Append(top(s).content, elt))]
  ELSE s

\* state.addText(text).  On an empty stack top() is undefined and reading
\* its content throws a TypeError.
addText(s, text) ==
  IF s.err # NoError THEN s
  ELSE IF Len(s.stack) = 0 THEN [s EXCEPT !.err = TypeError]
  ELSE
    LET nodes == top(s).content
        node == SchemaText(text, s.marks)
        merged == IF nodes = <<>> THEN NoDoc
                  ELSE maybeMerge(nodes[Len(nodes)], node)
    IN IF merged # NoDoc
       THEN [s EXCEPT !.stack =
               WithTopContent(@, [nodes EXCEPT ![Len(nodes)] = merged])]
       ELSE [s EXCEPT !.stack = WithTopContent(@, Append(nodes, node))]

\* Fault: openMark that appends the mark whatever the set holds.
openMark_Append(s, mark) ==
  IF s.err # NoError THEN s
  ELSE [s EXCEPT !.marks = Append(s.marks, mark)]

\* Fault: openMark that puts the mark first whatever the set holds.
openMark_Prepend(s, mark) ==
  IF s.err # NoError THEN s
  ELSE [s EXCEPT !.marks = <<mark>> \o s.marks]

\* state.openMark(mark)
openMark(s, mark) ==
  IF s.err # NoError THEN s
  ELSE [s EXCEPT !.marks = addToSet(mark, s.marks)]

\* Fault: closeMark that removes the mark the type creates without attrs
\* and leaves marks of the type that carry other attrs.
closeMark_SameAttrs(s, type) ==
  IF s.err # NoError THEN s
  ELSE [s EXCEPT !.marks =
          SelectSeq(@, LAMBDA m : m # create(type, NoAttrs))]

\* Fault: closeMark that leaves the active marks as they are.
closeMark_Keep(s, type) == s

\* state.closeMark(markType)
closeMark(s, type) ==
  IF s.err # NoError THEN s
  ELSE [s EXCEPT !.marks = removeFromSet(type, s.marks)]

\* Fault: addNode that gives the node no marks.
addNode_Unmarked(s, type, attrs, content) ==
  IF s.err # NoError THEN s
  ELSE LET node == createAutoFill(type, attrs, content, noMarks)
       IN [push(s, node) EXCEPT !.ret = node]

\* state.addNode(type, attrs, content)
addNode(s, type, attrs, content) ==
  IF s.err # NoError THEN s
  ELSE LET node == createAutoFill(type, attrs, content, s.marks)
       IN [push(s, node) EXCEPT !.ret = node]

\* Fault: openNode that puts the new frame in the place of the top frame.
openNode_Replace(s, type, attrs) ==
  IF s.err # NoError THEN s
  ELSE [s EXCEPT !.stack =
          Append(SubSeq(@, 1, Len(@) - 1), Frame(type, attrs, <<>>))]

\* state.openNode(type, attrs)
openNode(s, type, attrs) ==
  IF s.err # NoError THEN s
  ELSE [s EXCEPT !.stack = Append(@, Frame(type, attrs, <<>>)),
                 !.peak = IF Len(s.stack) + 1 > @ THEN Len(s.stack) + 1 ELSE @]

\* Fault: closeNode that leaves the active marks as they are.
closeNode_KeepMarks(s) ==
  IF s.err # NoError THEN s
  ELSE IF Len(s.stack) = 0 THEN [s EXCEPT !.err = TypeError]
  ELSE LET info == top(s)
           popped == [s EXCEPT !.stack = SubSeq(@, 1, Len(@) - 1)]
       IN addNode(popped, info.type, info.attrs, info.content)

\* Fault: closeNode that adds the closed node to the bottom frame.
closeNode_Hoist(s) ==
  IF s.err # NoError THEN s
  ELSE
    LET reset == IF Len(s.marks) # 0 THEN [s EXCEPT !.marks = noMarks] ELSE s
    IN IF Len(reset.stack) = 0 THEN [reset EXCEPT !.err = TypeError]
       ELSE LET info == top(reset)
                node == createAutoFill(info.type, info.attrs, info.content,
                                       reset.marks)
                rest == SubSeq(reset.stack, 1, Len(reset.stack) - 1)
            IN [reset EXCEPT
                  !.stack = IF rest = <<>> THEN rest
                            ELSE [rest EXCEPT ![1] =
                                    [@ EXCEPT !.content = Append(@, node)]],
                  !.ret = node]

\* state.closeNode().  The marks are reset first; on an empty stack pop()
\* gives undefined and reading its type throws a TypeError.
closeNode(s) ==
  IF s.err # NoError THEN s
  ELSE
    LET reset == IF Len(s.marks) # 0 THEN [s EXCEPT !.marks = noMarks] ELSE s
    IN IF Len(reset.stack) = 0 THEN [reset EXCEPT !.err = TypeError]
       ELSE LET info == top(reset)
                popped == [reset EXCEPT
                             !.stack = SubSeq(@, 1, Len(@) - 1)]
            IN addNode(popped, info.type, info.attrs, info.content)

\* state.getAttr(tok, name): the value of the first attribute of that name,
\* undefined when there is none.
getAttr(tok, name) ==
  IF \E k \in 1..Len(tok.attrs) : tok.attrs[k][1] = name
  THEN LET first == CHOOSE k \in 1..Len(tok.attrs) :
                      /\ tok.attrs[k][1] = name
                      /\ \A j \in 1..(k - 1) : tok.attrs[j][1] # name
       IN JStr(tok.attrs[first][2])
  ELSE JUndefined

----------------------------------------------------------------------------
(* Parse declarations (lines 191-255) and the registry (lines 154-189).    *)

\* A declaration registered on a node or mark type: parse is "block",
\* "mark", "function" or "missing"; attrs names the declaration's attrs
\* function ("undefined" when it has none); fn names its parse function.
Decl(type, token, parse, attrs, fn) ==
  [type |-> type, token |-> token, parse |-> parse, attrs |-> attrs, fn |-> fn]

DefaultDecls ==
  << Decl("blockquote", "blockquote", "block", "undefined", ""),
     Decl("paragraph", "paragraph", "block", "undefined", ""),
     Decl("list_item", "list_item", "block", "undefined", ""),
     Decl("bullet_list", "bullet_list", "block", "undefined", ""),
     Decl("ordered_list", "ordered_list", "block", "orderAttrs", ""),
     Decl("heading", "heading", "block", "headingAttrs", ""),
     Decl("code_block", "code_block", "function", "undefined", "parseCodeBlock"),
     Decl("code_block", "fence", "function", "undefined", "parseCodeBlock"),
     Decl("horizontal_rule", "hr", "function", "undefined", "parseHr"),
     Decl("image", "image", "function", "undefined", "parseImage"),
     Decl("hard_break", "hardbreak", "function", "undefined", "parseHardBreak"),
     Decl("em", "em", "mark", "undefined", ""),
     Decl("strong", "strong", "mark", "undefined", ""),
     Decl("link", "link", "mark", "linkAttrs", ""),
     Decl("code", "code_inline", "function", "undefined", "parseCodeInline") >>

\* A schema whose hard_break type also claims the "softbreak" token, with
\* the parse function of line 232.
SoftbreakDecl ==
  Decl("hard_break", "softbreak", "function", "undefined", "parseHardBreak")

\* A declaration with no parse value.
MissingParseDecl == Decl("comment", "comment", "missing", "undefined", "")

Schemas == {"default", "softbreak", "missing"}

\* The declarations schema.registry("parseMarkdown", f) walks, in order.
Declarations(name) ==
  CASE name = "default" -> DefaultDecls
    [] name = "softbreak" -> DefaultDecls \o <<SoftbreakDecl>>
    [] name = "missing" -> DefaultDecls \o <<MissingParseDecl>>

\* A handler of the table: kind is "text", "inline", "softbreak" (the
\* built-ins), "block_open", "block_close", "mark_open", "mark_close" or
\* "function".
Handler(kind, type, attrs, fn) ==
  [kind |-> kind, type |-> type, attrs |-> attrs, fn |-> fn]

NoHandler == Handler("undefined", "", "undefined", "")

EmptyTable == [n \in {} |-> NoHandler]

\* tokens[name] = handler
Put(table, name, handler) ==
  [n \in DOMAIN table \cup {name} |->
     IF n = name THEN handler ELSE table[n]]

\* this.tokenTypes[tok.type]
Lookup(table, name) ==
  IF name \in DOMAIN table THEN table[name] ELSE NoHandler

ConfigError == [kind |-> "AssertionError", name |-> ""]

\* Fault: registerTokens that passes over a declaration it cannot compile.
registerTokens_Lenient(table, info) ==
  IF info.parse = "function"
  THEN [table |-> Put(table, info.token,
                      Handler("function", info.type, "undefined", info.fn)),
        err |-> NoError]
  ELSE IF info.parse \in {"block", "mark"}
  THEN [table |-> Put(Put(table, info.token \o "_open",
                          Handler(info.parse \o "_open", info.type,
                                  info.attrs, "")),
                      info.token \o "_close",
                      Handler(info.parse \o "_close", info.type,
                              "undefined", "")),
        err |-> NoError]
  ELSE [table |-> table, err |-> NoError]

\* registerTokens(tokens, type, info): [table, err].
registerTokens(table, info) ==
  CASE info.parse = "block" ->
         [table |-> Put(Put(table, info.token \o "_open",
                            Handler("block_open", info.type, info.attrs, "")),
                        info.token \o "_close",
                        Handler("block_close", info.type, "undefined", "")),
          err |-> NoError]
    [] info.parse = "mark" ->
         [table |-> Put(Put(table, info.token \o "_open",
                            Handler("mark_open", info.type, info.attrs, "")),
                        info.token \o "_close",
                        Handler("mark_close", info.type, "undefined", "")),
          err |-> NoError]
    [] info.parse = "function" ->
         [table |-> Put(table, info.token,
                        Handler("function", info.type, "undefined", info.fn)),
          err |-> NoError]
    [] OTHER -> [table |-> table, err |-> ConfigError]

BuiltinTable ==
  Put(Put(Put(EmptyTable, "text", Handler("text", "", "undefined", "")),
          "inline", Handler("inline", "", "undefined", "")),
      "softbreak", Handler("softbreak", "", "undefined", ""))

\* schema.registry("parseMarkdown", f): f on each declaration in turn, the
\* first error ending the walk.
RECURSIVE RegisterAll(_, _)
RegisterAll(acc, decls) ==
  IF acc.err # NoError \/ decls = <<>> THEN acc
  ELSE RegisterAll(registerTokens(acc.table, Head(decls)), Tail(decls))

\* summarizeTokens(schema): [table, err].
summarizeTokens(decls) ==
  RegisterAll([table |-> BuiltinTable, err |-> NoError], decls)

NoCache == [k \in {} |-> 0]

\* Fault: tokenTypeInfo that builds the table anew on every call.
tokenTypeInfo_Rebuild(decls, cache, heap) ==
  LET built == summarizeTokens(decls)
  IN IF built.err # NoError
     THEN [cached |-> cache, tables |-> heap, ref |-> 0,
           err |-> built.err, scanned |-> TRUE]
     ELSE [cached |-> [k \in {"markdownTokens"} |-> Len(heap) + 1],
           tables |-> Append(heap, built.table), ref |-> Len(heap) + 1,
           err |-> NoError, scanned |-> TRUE]

\* tokenTypeInfo(schema): [cached, tables, ref, err, scanned].  The cached
\* table when there is one; otherwise the table summarizeTokens builds,
\* stored in the cache unless the build threw.  A table is an object: the
\* cache and the parse state hold references to it.
tokenTypeInfo(decls, cache, heap) ==
  IF "markdownTokens" \in DOMAIN cache
  THEN [cached |-> cache, tables |-> heap, ref |-> cache["markdownTokens"],
        err |-> NoError, scanned |-> FALSE]
  ELSE LET built == summarizeTokens(decls)
       IN IF built.err # NoError
          THEN [cached |-> cache, tables |-> heap, ref |-> 0,
                err |-> built.err, scanned |-> TRUE]
          ELSE [cached |-> [k \in {"markdownTokens"} |-> Len(heap) + 1],
                tables |-> Append(heap, built.table), ref |-> Len(heap) + 1,
                err |-> NoError, scanned |-> TRUE]

----------------------------------------------------------------------------
(* The attrs functions and parse functions of the declarations. *)

\* Line 199: {order: Number(state.getAttr(tok, "order") || 1)}
orderAttrs(tok) ==
  << <<"order", Number(OrElse(getAttr(tok, "order"), JNum(1)))>> >>

\* Line 203: {level: tok.tag.slice(1)}
headingAttrs(tok) ==
  << <<"level", JStr(IF tok.tag = <<>> THEN <<>> ELSE Tail(tok.tag))>> >>

\* Line 245: {href: ..., title: ... || null}
linkAttrs(tok) ==
  << <<"href", getAttr(tok, "href")>>,
     <<"title", OrElse(getAttr(tok, "title"), JNull)>> >>

\* info.attrs(state, tok) when info.attrs is a function, info.attrs itself
\* (undefined in every declaration here) otherwise.
ComputeAttrs(attrs, tok) ==
  CASE attrs = "orderAttrs" -> orderAttrs(tok)
    [] attrs = "headingAttrs" -> headingAttrs(tok)
    [] attrs = "linkAttrs" -> linkAttrs(tok)
    [] OTHER -> NoAttrs

trimTrailingNewline(str) ==
  IF str # <<>> /\ str[Len(str)] = "\n"
  THEN SubSeq(str, 1, Len(str) - 1)
  ELSE str

\* Fault: parseCodeBlock that leaves its node open.
parseCodeBlock_NoClose(type, s, tok) ==
  addText(openNode(s, type, NoAttrs), trimTrailingNewline(tok.content))

\* parseCodeBlock, bound to its node type.
parseCodeBlock(type, s, tok) ==
  closeNode(addText(openNode(s, type, NoAttrs),
                    trimTrailingNewline(tok.content)))

\* Line 222
parseHr(type, s, tok) ==
  addNode(s, type, << <<"markup", JStr(tok.markup)>> >>, <<>>)

\* Line 226
parseImage(type, s, tok) ==
  addNode(s, type,
          << <<"src", getAttr(tok, "src")>>,
             <<"title", OrElse(getAttr(tok, "title"), JNull)>>,
             <<"alt", IF tok.children # <<>>
                      THEN OrElse(JStr(tok.children[1].content), JNull)
                      ELSE JNull>> >>,
          <<>>)

\* Line 232
parseHardBreak(type, s, tok) == addNode(s, type, NoAttrs, <<>>)

\* Line 251
parseCodeInline(type, s, tok) ==
  closeMark(addText(openMark(s, create(type, NoAttrs)), tok.content), type)

----------------------------------------------------------------------------
(* The token sequences a parse is started on. *)

Leaf(type) == Tok(type, <<>>, <<>>, <<>>, <<>>, <<>>)

TextTok(content) == Tok("text", content, <<>>, <<>>, <<>>, <<>>)

InlineTok(children) == Tok("inline", <<>>, <<>>, children, <<>>, <<>>)

LinkOpen(href) ==
  Tok("link_open", <<>>, << <<"href", href>> >>, <<>>, <<>>, <<>>)

OrderedListOpen(attrs) == Tok("ordered_list_open", <<>>, attrs, <<>>, <<>>, <<>>)

CodeBlockTok(type, content) == Tok(type, content, <<>>, <<>>, <<>>, <<>>)

\* The tokens every bounded sequence is made of; "html_block" has no handler
\* in any of the schemas.
LeafTokens ==
  { TextTok(<<"a">>), TextTok(<<"b">>), Leaf("softbreak"),
    Leaf("paragraph_open"), Leaf("paragraph_close"),
    CodeBlockTok("code_block", <<"a", "\n">>), Leaf("hardbreak"),
    Leaf("em_open"), Leaf("em_close"), Leaf("html_block") }

\* Every sequence of at most n tokens, the children of its inline tokens
\* counted.
RECURSIVE TokenSeqs(_)
TokenSeqs(n) ==
  IF n = 0 THEN {<<>>}
  ELSE {<<>>}
       \cup {<<t>> \o rest : t \in LeafTokens, rest \in TokenSeqs(n - 1)}
       \cup UNION { {<<InlineTok(ch)>> \o rest :
                       ch \in TokenSeqs(k), rest \in TokenSeqs(n - 1 - k)} :
                    k \in 0..(n - 1) }

\* The values of the "order" attribute the ordered-list scenarios carry.
OrderAttrCases ==
  { <<>>,
    << <<"order", <<"3">>>> >>,
    << <<"order", <<"1", "2">>>> >>,
    << <<"order", <<"0">>>> >>,
    << <<"order", <<>>>> >>,
    << <<"order", <<"x">>>> >>,
    << <<"start", <<"5">>>>, <<"order", <<"7">>>>, <<"order", <<"9">>>> >> }

\* Longer sequences: the scenarios of the specification's section 8 and
\* one use of every declaration the bounded sequences leave out.
Scenarios ==
  { << TextTok(<<"a">>), TextTok(<<"b">>), Leaf("em_open"), TextTok(<<"a">>),
       Leaf("softbreak"), Leaf("em_close"), TextTok(<<"b">>) >>,
    << Leaf("paragraph_open"), TextTok(<<"a">>), Leaf("em_open"),
       TextTok(<<"b">>), Leaf("em_close"), TextTok(<<"c">>),
       Leaf("paragraph_close") >>,
    << Leaf("paragraph_open"),
       InlineTok(<< Leaf("em_open"), LinkOpen(<<"x">>), Leaf("strong_open"),
                    LinkOpen(<<"y">>), TextTok(<<"a">>), Leaf("link_close"),
                    TextTok(<<"b">>), Leaf("strong_close"),
                    Leaf("em_close") >>),
       Leaf("paragraph_close") >>,
    << Leaf("blockquote_open"), Leaf("bullet_list_open"),
       Leaf("list_item_open"), Leaf("paragraph_open"),
       InlineTok(<< TextTok(<<"a">>), Leaf("hardbreak"),
                    TextTok(<<"a">>) >>) >>,
    << Tok("heading_open", <<>>, <<>>, <<>>, <<"h", "2">>, <<"#", "#">>),
       InlineTok(<< TextTok(<<"a">>),
                    Tok("code_inline", <<"b">>, <<>>, <<>>, <<>>, <<"q">>) >>),
       Leaf("heading_close"),
       Tok("hr", <<>>, <<>>, <<>>, <<"h", "r">>, <<"*", "*", "*">>),
       CodeBlockTok("fence", <<"\n">>),
       Leaf("paragraph_open"),
       InlineTok(<< Tok("image", <<>>,
                        << <<"src", <<"u">>>>, <<"alt", <<>>>> >>,
                        << TextTok(<<"a">>) >>, <<>>, <<>>) >>),
       Leaf("paragraph_close") >>,
    << Leaf("blockquote_open"), Leaf("paragraph_open"),
       InlineTok(<< TextTok(<<"a">>) >>), Leaf("paragraph_close"),
       Leaf("blockquote_close"), Leaf("paragraph_open"),
       Leaf("paragraph_close") >>,
    << Leaf("paragraph_open"), Leaf("em_open"), TextTok(<<"a">>),
       Leaf("paragraph_close"), TextTok(<<"b">>) >> }
  \cup { << OrderedListOpen(a), Leaf("list_item_open"),
            Leaf("list_item_close"), Leaf("ordered_list_close") >> :
         a \in OrderAttrCases }

Inputs == TokenSeqs(MaxTokens) \cup Scenarios

----------------------------------------------------------------------------
(* fromMarkdown, one step at a time. *)

DocFrame == Frame("doc", NoAttrs, <<>>)

Init ==
  /\ schema \in Schemas
  /\ tables = <<>>
  /\ cached = NoCache
  /\ phase = "idle"
  /\ tokens = <<>>
  /\ calls = <<>>
  /\ stack = <<>>
  /\ marks = noMarks
  /\ tokenTypes = 0
  /\ doc = NoDoc
  /\ error = NoError
  /\ scans = 0
  /\ cacheHit = FALSE
  /\ dispatched = 0
  /\ stackAtEnd = <<>>
  /\ closes = 0
  /\ maxFrames = 0

\* Lines 14-15: new MarkdownParseState(schema, tokens).  The constructor
\* throws when the registry build does.
StartParse ==
  /\ phase = "idle"
  /\ scans < MaxScans \/ "markdownTokens" \in DOMAIN cached
  /\ LET info == tokenTypeInfo(Declarations(schema), cached, tables)
     IN /\ stack' = <<DocFrame>>
        /\ marks' = noMarks
        /\ cached' = info.cached
        /\ tables' = info.tables
        /\ tokenTypes' = info.ref
        /\ scans' = IF info.scanned THEN scans + 1 ELSE scans
        /\ cacheHit' = ~info.scanned
        /\ IF info.err # NoError
           THEN /\ phase' = "failed"
                /\ error' = info.err
                /\ calls' = <<>>
           ELSE /\ phase' = "parsing"
                /\ error' = NoError
                /\ calls' = <<1>>
  /\ maxFrames' = 1
  /\ \E toks \in Inputs : tokens' = toks
  /\ UNCHANGED <<schema, doc, dispatched, stackAtEnd, closes>>

\* The token list of the k-th parseTokens activation: the whole sequence
\* for the first, the children of the inline token its caller stands at
\* for the others.
RECURSIVE ActiveToks(_)
ActiveToks(k) ==
  IF k = 1 THEN tokens
  ELSE ActiveToks(k - 1)[calls[k - 1]].children

\* toks of the running activation.
CurrentToks == ActiveToks(Len(calls))

\* The running parseTokens activation has a token left: i < toks.length.
HasToken ==
  /\ phase = "parsing"
  /\ calls[Len(calls)] <= Len(CurrentToks)

\* toks[i]
CurrentToken == CurrentToks[calls[Len(calls)]]

\* this.tokenTypes[tok.type]
CurrentHandler == Lookup(tables[tokenTypes], CurrentToken.type)

\* i++ in the running activation.
NextIndex(cs) == [cs EXCEPT ![Len(cs)] = @ + 1]

\* The parse state after handler result s: i++ when the handler returned,
\* the call failing when it threw.
Handled(s) ==
  /\ stack' = s.stack
  /\ marks' = s.marks
  /\ dispatched' = dispatched + 1
  /\ maxFrames' = IF s.peak > maxFrames THEN s.peak ELSE maxFrames
  /\ IF s.err = NoError
     THEN /\ calls' = NextIndex(calls)
          /\ UNCHANGED <<phase, error>>
     ELSE /\ phase' = "failed"
          /\ error' = s.err
          /\ UNCHANGED calls
  /\ UNCHANGED <<schema, tables, cached, tokens, tokenTypes, doc, scans,
                 cacheHit, stackAtEnd, closes>>

\* Line 181: tokens.text
TextToken ==
  /\ HasToken
  /\ CurrentHandler.kind = "text"
  /\ Handled(addText(PState(stack, marks), CurrentToken.content))

\* Line 183: tokens.softbreak
SoftbreakToken ==
  /\ HasToken
  /\ CurrentHandler.kind = "softbreak"
  /\ Handled(addText(PState(stack, marks), <<"\n">>))

\* Line 182: tokens.inline enters parseTokens(tok.children); the caller
\* stays at the inline token until that activation returns.
InlineToken ==
  /\ HasToken
  /\ CurrentHandler.kind = "inline"
  /\ calls' = Append(calls, 1)
  /\ dispatched' = dispatched + 1
  /\ UNCHANGED <<schema, tables, cached, phase, tokens, stack, marks, tokenTypes,
                 doc, error, scans, cacheHit, stackAtEnd, closes, maxFrames>>

\* Lines 161-164
BlockOpenToken ==
  /\ HasToken
  /\ CurrentHandler.kind = "block_open"
  /\ Handled(openNode(PState(stack, marks), CurrentHandler.type,
                      ComputeAttrs(CurrentHandler.attrs, CurrentToken)))

\* Line 165
BlockCloseToken ==
  /\ HasToken
  /\ CurrentHandler.kind = "block_close"
  /\ Handled(closeNode(PState(stack, marks)))

\* Lines 167-170
MarkOpenToken ==
  /\ HasToken
  /\ CurrentHandler.kind = "mark_open"
  /\ Handled(openMark(PState(stack, marks),
                      create(CurrentHandler.type,
                             ComputeAttrs(CurrentHandler.attrs, CurrentToken))))

\* Line 171
MarkCloseToken ==
  /\ HasToken
  /\ CurrentHandler.kind = "mark_close"
  /\ Handled(closeMark(PState(stack, marks), CurrentHandler.type))

\* info.parse.bind(type) of line 173, on (state, tok).
CallParseFunction(h, s, tok) ==
  CASE h.fn = "parseCodeBlock" -> parseCodeBlock(h.type, s, tok)
    [] h.fn = "parseHr" -> parseHr(h.type, s, tok)
    [] h.fn = "parseImage" -> parseImage(h.type, s, tok)
    [] h.fn = "parseHardBreak" -> parseHardBreak(h.type, s, tok)
    [] h.fn = "parseCodeInline" -> parseCodeInline(h.type, s, tok)

\* Line 173: a declaration's own parse function.
FunctionToken ==
  /\ HasToken
  /\ CurrentHandler.kind = "function"
  /\ Handled(CallParseFunction(CurrentHandler, PState(stack, marks),
                               CurrentToken))

UnsupportedError(type) == [kind |-> "unsupported", name |-> type]

\* Fault: a token without a handler is passed over instead of thrown on.
UnsupportedToken_Skip ==
  /\ HasToken
  /\ CurrentHandler = NoHandler
  /\ calls' = NextIndex(calls)
  /\ UNCHANGED <<schema, tables, cached, phase, tokens, stack, marks,
                 tokenTypes, doc, error, scans, cacheHit, dispatched,
                 stackAtEnd, closes, maxFrames>>

\* Lines 117-118: no handler for tok.type.
UnsupportedToken ==
  /\ HasToken
  /\ CurrentHandler = NoHandler
  /\ phase' = "failed"
  /\ error' = UnsupportedError(CurrentToken.type)
  /\ UNCHANGED <<schema, tables, cached, tokens, calls, stack, marks,
                 tokenTypes, doc, scans, cacheHit, dispatched, stackAtEnd,
                 closes, maxFrames>>

\* Line 114: i reached toks.length; parseTokens returns, to fromMarkdown
\* or to the inline handler that called it (whose caller then takes i++).
ParseTokensReturn ==
  /\ phase = "parsing"
  /\ calls[Len(calls)] > Len(CurrentToks)
  /\ IF Len(calls) = 1
     THEN /\ calls' = <<>>
          /\ phase' = "unwinding"
          /\ stackAtEnd' = stack
     ELSE /\ calls' = NextIndex(SubSeq(calls, 1, Len(calls) - 1))
          /\ UNCHANGED <<phase, stackAtEnd>>
  /\ UNCHANGED <<schema, tables, cached, tokens, stack, marks, tokenTypes,
                 doc, error, scans, cacheHit, dispatched, closes, maxFrames>>

\* Line 17: one turn of do { doc = state.closeNode() } while (stack.length)
Unwind ==
  /\ phase = "unwinding"
  /\ LET s == closeNode(PState(stack, marks))
     IN /\ stack' = s.stack
        /\ marks' = s.marks
        /\ closes' = closes + 1
        /\ IF s.err # NoError
           THEN /\ phase' = "failed"
                /\ error' = s.err
                /\ UNCHANGED doc
           ELSE /\ doc' = s.ret
                /\ phase' = IF Len(s.stack) # 0 THEN "unwinding" ELSE "returned"
                /\ UNCHANGED error
  /\ UNCHANGED <<schema, tables, cached, tokens, calls, tokenTypes, scans,
                 cacheHit, dispatched, stackAtEnd, maxFrames>>

\* The call is over (line 18 returned doc, or an error reached the caller);
\* the parse state is dropped, the schema and its cache remain.
Finish ==
  /\ phase \in {"returned", "failed"}
  /\ phase' = "idle"
  /\ tokens' = <<>>
  /\ calls' = <<>>
  /\ stack' = <<>>
  /\ marks' = noMarks
  /\ tokenTypes' = 0
  /\ doc' = NoDoc
  /\ error' = NoError
  /\ cacheHit' = FALSE
  /\ dispatched' = 0
  /\ stackAtEnd' = <<>>
  /\ closes' = 0
  /\ maxFrames' = 0
  /\ UNCHANGED <<schema, tables, cached, scans>>

Next ==
  \/ StartParse
  \/ TextToken
  \/ SoftbreakToken
  \/ InlineToken
  \/ BlockOpenToken
  \/ BlockCloseToken
  \/ MarkOpenToken
  \/ MarkCloseToken
  \/ FunctionToken
  \/ UnsupportedToken
  \/ ParseTokensReturn
  \/ Unwind
  \/ Finish

Spec == Init /\ [][Next]_vars

----------------------------------------------------------------------------
(* Read-outs of the input and of the result that the properties below      *)
(* compare the parse against.                                              *)

\* The handler table of the running parse.
Table == tables[tokenTypes]

\* The tokens in the order parseTokens meets them: an inline token, then
\* its children.
RECURSIVE Flatten(_)
Flatten(toks) ==
  IF toks = <<>> THEN <<>>
  ELSE LET tok == Head(toks)
       IN <<tok>>
          \o (IF Lookup(Table, tok.type).kind = "inline"
              THEN Flatten(tok.children) ELSE <<>>)
          \o Flatten(Tail(toks))

\* What a token does to the number of frames: a block open token adds a
\* frame, a block close token takes one away.
Delta(tok) ==
  CASE Lookup(Table, tok.type).kind = "block_open" -> 1
    [] Lookup(Table, tok.type).kind = "block_close" -> -1
    [] OTHER -> 0

\* Frames open after the first n tokens of flat, the root frame included.
RECURSIVE DepthAfter(_, _)
DepthAfter(flat, n) ==
  IF n = 0 THEN 1 ELSE DepthAfter(flat, n - 1) + Delta(flat[n])

\* No block close token comes without an open frame above the root to close.
NoUnmatchedClose(flat) ==
  \A n \in 1..Len(flat) : DepthAfter(flat, n) >= 1

\* Block frames opened and never closed.
Unclosed(flat) == DepthAfter(flat, Len(flat)) - 1

\* node is frames[k] closed: its type and attrs, its accumulated children
\* in order and, after them, the frame above it closed the same way.
RECURSIVE ClosedOver(_, _, _)
ClosedOver(node, frames, k) ==
  /\ node.type = frames[k].type
  /\ node.attrs = frames[k].attrs
  /\ IF k = Len(frames)
     THEN node.content = frames[k].content
     ELSE /\ Len(node.content) = Len(frames[k].content) + 1
          /\ SubSeq(node.content, 1, Len(frames[k].content))
               = frames[k].content
          /\ ClosedOver(node.content[Len(node.content)], frames, k + 1)

----------------------------------------------------------------------------
(* C1: when block frames are opened and never closed, and no close token   *)
(* is unmatched, the forced unwind returns one node of the document root   *)
(* type with the stack empty, and every unclosed frame has become a node   *)
(* nested under its parent frame's node, after the children the parent had *)
(* and with all of its own children in the order they were added.          *)
C1_ForcedUnwindKeepsUnclosedFrames ==
  (/\ phase \in {"unwinding", "returned", "failed"}
   /\ tokenTypes # 0
   /\ NoUnmatchedClose(Flatten(tokens))
   /\ Unclosed(Flatten(tokens)) >= 1)
  => /\ error.kind \in {"none", "unsupported"}
     /\ phase = "unwinding" => Len(stackAtEnd) = Unclosed(Flatten(tokens)) + 1
     /\ phase = "returned" =>
          /\ doc.type = "doc"
          /\ stack = <<>>
          /\ Len(stackAtEnd) = Unclosed(Flatten(tokens)) + 1
          /\ ClosedOver(doc, stackAtEnd, 1)

\* A parse has returned with three frames left unclosed above the root, the
\* innermost holding several children.
C1_Witness ==
  /\ phase = "returned"
  /\ NoUnmatchedClose(Flatten(tokens))
  /\ Len(stackAtEnd) >= 4
  /\ Len(stackAtEnd[Len(stackAtEnd)].content) >= 2

(* C2: a token sequence holding an unmatched block close token raises no   *)
(* error and still yields one document root node through the forced        *)
(* unwind.                                                                 *)
C2_UnmatchedCloseTolerated ==
  (/\ phase \in {"returned", "failed"}
   /\ tokenTypes # 0
   /\ ~NoUnmatchedClose(Flatten(tokens)))
  => /\ error.kind \in {"none", "unsupported"}
     /\ phase = "returned" => doc.type = "doc"


(* C3: when parseTokens meets a token without a handler, at top level or   *)
(* among the children of an inline token, the call fails with an error     *)
(* naming that token type; every token before it was dispatched, no token  *)
(* after it is, and the caller gets no document.                           *)

\* Tokens met before the position of the first k activations: those before
\* i in each activation's list, and the inline tokens the inner activations
\* were entered through.
RECURSIVE ConsumedUpTo(_)
ConsumedUpTo(k) ==
  IF k = 0 THEN 0
  ELSE ConsumedUpTo(k - 1)
       + (IF k > 1 THEN 1 ELSE 0)
       + Len(Flatten(SubSeq(ActiveToks(k), 1, calls[k] - 1)))

C3_UnsupportedTokenFailsTheParse ==
  /\ phase = "parsing" =>
       /\ dispatched = ConsumedUpTo(Len(calls))
       /\ \A n \in 1..dispatched :
            Lookup(Table, Flatten(tokens)[n].type) # NoHandler
  /\ phase \in {"unwinding", "returned"} =>
       /\ dispatched = Len(Flatten(tokens))
       /\ \A n \in 1..dispatched :
            Lookup(Table, Flatten(tokens)[n].type) # NoHandler
  /\ error.kind = "unsupported" =>
       /\ phase = "failed"
       /\ error.name = CurrentToken.type
       /\ Lookup(Table, error.name) = NoHandler
       /\ dispatched = ConsumedUpTo(Len(calls))
       /\ doc = NoDoc
       /\ closes = 0

\* The parse failed on a child of an inline token, with the inline token
\* dispatched before it and a top-level token still to come.
C3_Witness ==
  /\ error.kind = "unsupported"
  /\ Len(calls) = 2
  /\ dispatched >= 1
  /\ calls[1] < Len(tokens)

(* C4: a text or softbreak token whose text meets a last child that is a   *)
(* text run with the active Mark Set extends that run and adds no child;   *)
(* in every other case (other marks, last child not text, no children)     *)
(* exactly one text run with the active Mark Set is appended after the     *)
(* existing children.                                                      *)
MarkSetOf(ms) == {ms[k] : k \in 1..Len(ms)}

C4_MergeLaw ==
  [][ (/\ HasToken
       /\ CurrentHandler.kind \in {"text", "softbreak"}
       /\ Len(stack) > 0)
      => LET before == stack[Len(stack)].content
             after == stack'[Len(stack')].content
             text == IF CurrentHandler.kind = "text"
                     THEN CurrentToken.content ELSE <<"\n">>
             last == before[Len(before)]
         IN /\ Len(stack') = Len(stack)
            /\ \A k \in 1..(Len(stack) - 1) : stack'[k] = stack[k]
            /\ marks' = marks
            /\ IF /\ before # <<>>
                  /\ last.type = "text"
                  /\ MarkSetOf(last.marks) = MarkSetOf(marks)
               THEN /\ Len(after) = Len(before)
                    /\ SubSeq(after, 1, Len(before) - 1)
                         = SubSeq(before, 1, Len(before) - 1)
                    /\ after[Len(after)]
                         = MkNode("text", NoAttrs, <<>>, last.marks,
                                  last.text \o text)
               ELSE after
                      = Append(before,
                               MkNode("text", NoAttrs, <<>>, marks, text))
    ]_vars

\* Two text tokens merged into "ab"; the text under em after them is a
\* sibling of its own, extended by the softbreak; "b" after em_close is a
\* third.
C4_Witness ==
  /\ phase = "parsing"
  /\ stack = << Frame("doc", NoAttrs,
                      << MkNode("text", NoAttrs, <<>>, <<>>, <<"a", "b">>),
                         MkNode("text", NoAttrs, <<>>,
                                <<MkMark("em", NoAttrs)>>, <<"a", "\n">>),
                         MkNode("text", NoAttrs, <<>>, <<>>, <<"b">>) >>) >>

(* C5: every text run of the result carries the Mark Set that was active   *)
(* when its token was consumed; [paragraph_open, text a, em_open, text b,  *)
(* em_close, text c, paragraph_close] gives one paragraph with the three   *)
(* text runs a (no marks), b (em), c (no marks).                           *)

\* The characters of text, each with the given marks.
Chars(text, active) == [k \in 1..Len(text) |-> <<text[k], active>>]

\* The characters the tokens of flat add, each with the marks active when
\* it is added: a mark open token adds its mark, a mark close token removes
\* the marks of its type, closing a node leaves no mark active.
RECURSIVE RefChars(_, _)
RefChars(flat, active) ==
  IF flat = <<>> THEN <<>>
  ELSE
    LET tok == Head(flat)
        h == Lookup(Table, tok.type)
        without == {m \in active : m.type # h.type}
    IN CASE h.kind = "text" ->
              Chars(tok.content, active) \o RefChars(Tail(flat), active)
         [] h.kind = "softbreak" ->
              <<<<"\n", active>>>> \o RefChars(Tail(flat), active)
         [] h.kind = "mark_open" ->
              RefChars(Tail(flat),
                       active
                       \cup {MkMark(h.type, ComputeAttrs(h.attrs, tok))})
         [] h.kind = "mark_close" -> RefChars(Tail(flat), without)
         [] h.kind = "block_close" -> RefChars(Tail(flat), {})
         [] h.fn = "parseCodeBlock" ->
              Chars(IF tok.content # <<>> /\ tok.content[Len(tok.content)] = "\n"
                    THEN SubSeq(tok.content, 1, Len(tok.content) - 1)
                    ELSE tok.content, active)
              \o RefChars(Tail(flat), {})
         [] h.fn = "parseCodeInline" ->
              Chars(tok.content, active \cup {MkMark(h.type, NoAttrs)})
              \o RefChars(Tail(flat), without)
         [] OTHER -> RefChars(Tail(flat), active)

\* The characters of the text runs under nodes, in document order, each
\* with its run's marks.
RECURSIVE TreeChars(_)
TreeChars(nodes) ==
  IF nodes = <<>> THEN <<>>
  ELSE (IF Head(nodes).type = "text"
        THEN Chars(Head(nodes).text, MarkSetOf(Head(nodes).marks))
        ELSE TreeChars(Head(nodes).content))
       \o TreeChars(Tail(nodes))

EmScenario ==
  << Leaf("paragraph_open"), TextTok(<<"a">>), Leaf("em_open"),
     TextTok(<<"b">>), Leaf("em_close"), TextTok(<<"c">>),
     Leaf("paragraph_close") >>

EmScenarioDoc ==
  MkNode("doc", NoAttrs,
         << MkNode("paragraph", NoAttrs,
                   << MkNode("text", NoAttrs, <<>>, <<>>, <<"a">>),
                      MkNode("text", NoAttrs, <<>>,
                             <<MkMark("em", NoAttrs)>>, <<"b">>),
                      MkNode("text", NoAttrs, <<>>, <<>>, <<"c">>) >>,
                   <<>>, <<>>) >>,
         <<>>, <<>>)

C5_TextRunsCarryActiveMarks ==
  /\ (phase = "returned" /\ tokens = EmScenario) => doc = EmScenarioDoc
  /\ (phase = "returned" /\ NoUnmatchedClose(Flatten(tokens)))
       => TreeChars(<<doc>>) = RefChars(Flatten(tokens), {})

\* The scenario's parse has returned its document.
C5_Witness ==
  /\ phase = "returned"
  /\ tokens = EmScenario
  /\ doc = EmScenarioDoc


(* C6: whatever the schema declares, a text token appends its content as   *)
(* text with the active marks, an inline token has its children            *)
(* dispatched, and a softbreak token appends a newline as text.            *)
C6_BuiltinsAlwaysInEffect ==
  [][ (HasToken /\ Len(stack) > 0)
      => /\ CurrentToken.type = "text" =>
              /\ stack' = addText(PState(stack, marks),
                                  CurrentToken.content).stack
              /\ marks' = marks
         /\ CurrentToken.type = "softbreak" =>
              /\ stack' = addText(PState(stack, marks), <<"\n">>).stack
              /\ marks' = marks
         /\ CurrentToken.type = "inline" =>
              /\ calls' = Append(calls, 1)
              /\ stack' = stack
    ]_vars

(* C7: the registry is built at most once per schema: the first parse      *)
(* scans the declarations and stores the table in the schema's cache, and  *)
(* every later parse runs on that same table without another scan,         *)
(* whatever the parses before it did.                                      *)
WellFormed(decls) ==
  \A k \in 1..Len(decls) : decls[k].parse \in {"block", "mark", "function"}

C7_RegistryBuiltOncePerSchema ==
  /\ Len(tables) <= 1
  /\ "markdownTokens" \in DOMAIN cached =>
       /\ scans = 1
       /\ cached["markdownTokens"] = 1
       /\ dispatched = 0 =>
            tables[1] = summarizeTokens(Declarations(schema)).table
  /\ WellFormed(Declarations(schema)) =>
       /\ scans <= 1
       /\ scans = 1 <=> "markdownTokens" \in DOMAIN cached
       /\ phase # "idle" =>
            /\ "markdownTokens" \in DOMAIN cached
            /\ tokenTypes = cached["markdownTokens"]
       /\ cacheHit => scans = 1

\* A later parse is running on the cached table: no scan was made for it.
C7_Witness ==
  /\ phase = "parsing"
  /\ cacheHit
  /\ scans = 1
  /\ tokenTypes = cached["markdownTokens"]
  /\ dispatched >= 1

(* C8: a schema with a declaration whose parse value is missing raises a   *)
(* configuration error while the registry is built: no token is            *)
(* dispatched, whether or not the sequence holds a token of the declared   *)
(* type, no table is cached and no document is returned.                   *)
C8_MissingParseIsAConfigurationError ==
  ~WellFormed(Declarations(schema)) =>
    /\ phase \in {"idle", "failed"}
    /\ phase = "failed" => error = ConfigError
    /\ cached = NoCache
    /\ tables = <<>>
    /\ tokenTypes = 0
    /\ dispatched = 0
    /\ calls = <<>>
    /\ doc = NoDoc
    /\ closes = 0

\* The second parse on such a schema has failed in the constructor, on a
\* sequence without any token of the declared type.
C8_Witness ==
  /\ ~WellFormed(Declarations(schema))
  /\ phase = "failed"
  /\ error = ConfigError
  /\ scans = 2
  /\ Len(tokens) >= 2
  /\ \A k \in 1..Len(tokens) : tokens[k].type # "comment"

(* C9: the ordered-list declaration sets the frame's order attribute to    *)
(* the numeric value of the token's "order" attribute when it is present   *)
(* and numeric, and to 1 when it is absent or not numeric.                 *)
OrderPerClaim(tok) ==
  LET v == getAttr(tok, "order")
  IN IF /\ v.t = "string"
        /\ v.s # <<>>
        /\ \A k \in 1..Len(v.s) : IsDigit(v.s[k])
     THEN JNum(DecimalValue(v.s))
     ELSE JNum(1)

C9_OrderDefaultsToOne ==
  [][ (HasToken /\ CurrentToken.type = "ordered_list_open")
      => /\ Len(stack') = Len(stack) + 1
         /\ stack'[Len(stack')].type = "ordered_list"
         /\ stack'[Len(stack')].attrs
              = << <<"order", OrderPerClaim(CurrentToken)>> >>
    ]_vars

(* C10: a parse call ends: it returns a document node once the forced      *)
(* unwind has emptied the stack, or fails with an error; the unwind loop   *)
(* makes as many closeNode calls as there are frames on the stack when     *)
(* token consumption ends.                                                 *)
C10_UnwindClosesEachFrameOnce ==
  /\ phase = "returned" =>
       /\ doc.type = "doc"
       /\ stack = <<>>
       /\ closes = Len(stackAtEnd)
  /\ (phase = "failed" /\ closes > 0) => closes <= Len(stackAtEnd)

\* The steps of a running call: the code runs them one after the other
\* without waiting for anything.
CallStep ==
  \/ TextToken
  \/ SoftbreakToken
  \/ InlineToken
  \/ BlockOpenToken
  \/ BlockCloseToken
  \/ MarkOpenToken
  \/ MarkCloseToken
  \/ FunctionToken
  \/ UnsupportedToken
  \/ ParseTokensReturn
  \/ Unwind

FairSpec == Spec /\ WF_vars(CallStep)

\* Every started call returns or fails.
C10_CallEnds ==
  (phase \in {"parsing", "unwinding"}) ~> (phase \in {"returned", "failed"})

(* C11: for a sequence of well-matched block open and close tokens with    *)
(* text and inline tokens between them, the deepest node built from a      *)
(* frame lies as many steps under the root of the returned tree as the     *)
(* most frames the stack held at one time, less one (the root frame).      *)

\* Every block open token has its close token and no close is unmatched.
WellMatched(flat) == NoUnmatchedClose(flat) /\ Unclosed(flat) = 0

\* flat holds block open, block close, text and inline tokens only.
OnlyBlocksAndText(flat) ==
  \A n \in 1..Len(flat) :
    Lookup(Table, flat[n].type).kind
      \in {"block_open", "block_close", "text", "inline"}

Max(a, b) == IF a > b THEN a ELSE b

\* Parent-to-child steps from the parent of nodes to the deepest node
\* under it that is not a text run.
RECURSIVE FrameDepth(_)
FrameDepth(nodes) ==
  IF nodes = <<>> THEN 0
  ELSE Max(IF Head(nodes).type = "text" THEN 0
           ELSE 1 + FrameDepth(Head(nodes).content),
           FrameDepth(Tail(nodes)))

C11_TreeDepthIsMaxFramesLessOne ==
  (/\ phase \in {"unwinding", "returned", "failed"}
   /\ tokenTypes # 0
   /\ WellMatched(Flatten(tokens))
   /\ OnlyBlocksAndText(Flatten(tokens)))
  => /\ error = NoError
     /\ (phase = "unwinding" /\ closes = 0) =>
          /\ Len(stack) = 1
          /\ FrameDepth(stack[1].content) = maxFrames - 1
     /\ phase = "returned" =>
          /\ doc.type = "doc"
          /\ FrameDepth(doc.content) = maxFrames - 1

\* A returned tree two levels deep whose last child is only one level
\* deep: three frames were on the stack at once.
C11_Witness ==
  /\ phase = "returned"
  /\ WellMatched(Flatten(tokens))
  /\ OnlyBlocksAndText(Flatten(tokens))
  /\ maxFrames = 3
  /\ FrameDepth(doc.content) = 2
  /\ Len(doc.content) = 2
  /\ FrameDepth(<<doc.content[2]>>) = 1

(* C12: the node closeNode builds from the popped frame is created with    *)
(* the Mark Set that was active before closeNode reset it: when marks are  *)
(* active as a block close token arrives, the node appended to the new top *)
(* frame carries those marks.                                              *)
C12_ClosedNodeCarriesMarksBeforeReset ==
  [][ (/\ HasToken
       /\ CurrentHandler.kind = "block_close"
       /\ Len(stack) >= 2)
      => LET after == stack'[Len(stack')].content
         IN /\ Len(stack') = Len(stack) - 1
            /\ after # <<>>
            /\ after[Len(after)].type = stack[Len(stack)].type
            /\ after[Len(after)].marks = marks
    ]_vars

(* C13: after every closeNode (a block close token, the code-block         *)
(* handler, the forced unwind) no mark is active: the active marks are     *)
(* among those opened since the last closeNode, and so are the marks of a  *)
(* text run added then; a mark opened inside a block and left open at its  *)
(* close token is on no text added after the block.                        *)

\* The tokens the running parse has dispatched, in order.
Consumed == SubSeq(Flatten(tokens), 1, dispatched)

\* The marks the mark open tokens of flat made since its last token that
\* closes a node.
RECURSIVE OpenedSinceLastClose(_)
OpenedSinceLastClose(flat) ==
  IF flat = <<>> THEN {}
  ELSE LET tok == flat[Len(flat)]
           h == Lookup(Table, tok.type)
       IN IF h.kind = "block_close" \/ h.fn = "parseCodeBlock" THEN {}
          ELSE (IF h.kind = "mark_open"
                THEN {MkMark(h.type, ComputeAttrs(h.attrs, tok))}
                ELSE {})
               \cup OpenedSinceLastClose(SubSeq(flat, 1, Len(flat) - 1))

C13_NoMarkActiveAfterCloseNode ==
  /\ closes > 0 => marks = noMarks
  /\ (phase # "idle" /\ tokenTypes # 0 /\ closes = 0) =>
       /\ MarkSetOf(marks) \subseteq OpenedSinceLastClose(Consumed)
       /\ (/\ phase = "parsing"
           /\ dispatched > 0
           /\ Lookup(Table, Consumed[dispatched].type).kind
                \in {"text", "softbreak"}
           /\ Len(stack) > 0)
          => LET nodes == stack[Len(stack)].content
             IN /\ nodes # <<>>
                /\ nodes[Len(nodes)].type = "text"
                /\ MarkSetOf(nodes[Len(nodes)].marks)
                     \subseteq OpenedSinceLastClose(Consumed)

\* em was opened in a paragraph and still active at its close token: the
\* text inside the paragraph has it, the text after the paragraph does not.
C13_Witness ==
  /\ phase = "parsing"
  /\ dispatched = 5
  /\ marks = noMarks
  /\ stack = << Frame("doc", NoAttrs,
                      << MkNode("paragraph", NoAttrs,
                                << MkNode("text", NoAttrs, <<>>,
                                          <<MkMark("em", NoAttrs)>>,
                                          <<"a">>) >>,
                                <<>>, <<>>),
                         MkNode("text", NoAttrs, <<>>, <<>>, <<"b">>) >>) >>

(* C14: when every block close token of the sequence has an earlier open   *)
(* to match, the stack holds at least one frame at every point of token    *)
(* consumption, up to the forced unwind, and its bottom frame is the       *)
(* document root frame the constructor made.                               *)
C14_RootFrameStaysAtTheBottom ==
  (/\ phase \in {"parsing", "unwinding", "failed"}
   /\ tokenTypes # 0
   /\ closes = 0
   /\ NoUnmatchedClose(Flatten(tokens)))
  => /\ Len(stack) >= 1
     /\ stack[1].type = DocFrame.type
     /\ stack[1].attrs = DocFrame.attrs
     /\ error.kind \in {"none", "unsupported"}

\* A block was opened and closed again and a token consumed after it: the
\* stack is back to the root frame, which holds the closed block.
C14_Witness ==
  /\ phase = "parsing"
  /\ NoUnmatchedClose(Flatten(tokens))
  /\ dispatched = 3
  /\ Len(tokens) = 3
  /\ Lookup(Table, tokens[2].type).kind = "block_close"
  /\ Len(stack) = 1
  /\ stack[1].type = "doc"
  /\ Len(stack[1].content) = 2

(* C15: a leaf token handled through addNode (hardbreak, hr, image) adds   *)
(* exactly one node of its type, with the active marks, after the children *)
(* of the top frame, and changes neither the number of frames nor the      *)
(* active marks; a text token that comes after the leaf adds a text run    *)
(* of its own after it, so the text before and after the leaf is not       *)
(* merged.                                                                 *)
LeafFunctions == {"parseHardBreak", "parseHr", "parseImage"}

LeafNodeTypes == {"hard_break", "horizontal_rule", "image"}

C15_LeafTokenAddsOneNodeInPlace ==
  [][ (HasToken /\ Len(stack) > 0)
      => LET before == stack[Len(stack)].content
             after == stack'[Len(stack')].content
         IN /\ (/\ CurrentHandler.kind = "function"
                /\ CurrentHandler.fn \in LeafFunctions)
               => /\ Len(stack') = Len(stack)
                  /\ \A k \in 1..(Len(stack) - 1) : stack'[k] = stack[k]
                  /\ stack'[Len(stack)].type = stack[Len(stack)].type
                  /\ stack'[Len(stack)].attrs = stack[Len(stack)].attrs
                  /\ marks' = marks
                  /\ Len(after) = Len(before) + 1
                  /\ SubSeq(after, 1, Len(before)) = before
                  /\ after[Len(after)].type = CurrentHandler.type
                  /\ after[Len(after)].type \in LeafNodeTypes
                  /\ after[Len(after)].marks = marks
                  /\ after[Len(after)].content = <<>>
            /\ (/\ CurrentHandler.kind = "text"
                /\ before # <<>>
                /\ before[Len(before)].type \in LeafNodeTypes)
               => /\ Len(stack') = Len(stack)
                  /\ Len(after) = Len(before) + 1
                  /\ SubSeq(after, 1, Len(before)) = before
                  /\ after[Len(after)].type = "text"
                  /\ after[Len(after)].text = CurrentToken.content
    ]_vars

\* A hard break between two text runs of the same marks, in the frame the
\* three tokens arrived in.
C15_Witness ==
  /\ phase = "parsing"
  /\ Len(stack) = 1
  /\ marks = noMarks
  /\ stack[1].content
       = << MkNode("text", NoAttrs, <<>>, <<>>, <<"a">>),
            MkNode("hard_break", NoAttrs, <<>>, <<>>, <<>>),
            MkNode("text", NoAttrs, <<>>, <<>>, <<"a">>) >>

(* C16: after a mark close token of mark type T no mark of type T is       *)
(* active, whatever attrs the marks of type T had and however many open    *)
(* tokens of T came before; the marks of the other types stay, in the      *)
(* order they had, and the stack is as it was.                             *)

\* The marks of set that are not of the given type, in their order.
RECURSIVE OtherTypes(_, _)
OtherTypes(set, type) ==
  IF set = <<>> THEN <<>>
  ELSE (IF Head(set).type = type THEN <<>> ELSE <<Head(set)>>)
       \o OtherTypes(Tail(set), type)

C16_MarkCloseRemovesEveryMarkOfTheType ==
  [][ (HasToken /\ CurrentHandler.kind = "mark_close")
      => /\ \A k \in 1..Len(marks') : marks'[k].type # CurrentHandler.type
         /\ marks' = OtherTypes(marks, CurrentHandler.type)
         /\ stack' = stack
         /\ phase' = phase
    ]_vars

\* em, link x, strong and link y were opened in this order; link_close has
\* removed both links and left em before strong.
C16_Witness ==
  /\ phase = "parsing"
  /\ Len(calls) = 2
  /\ calls[2] >= 7
  /\ CurrentToks[1].type = "em_open"
  /\ CurrentToks[6].type = "link_close"
  /\ marks = <<MkMark("em", NoAttrs), MkMark("strong", NoAttrs)>>

(* C17: a mark open token whose mark is already active with the same type  *)
(* and attrs leaves the active marks as they are, and so does a mark close *)
(* token of a type no active mark has.                                     *)
C17_MarkOpenAndCloseAreIdempotent ==
  [][ HasToken
      => /\ (/\ CurrentHandler.kind = "mark_open"
             /\ \E k \in 1..Len(marks) :
                  marks[k] = MkMark(CurrentHandler.type,
                                    ComputeAttrs(CurrentHandler.attrs,
                                                 CurrentToken)))
            => (marks' = marks /\ stack' = stack)
         /\ (/\ CurrentHandler.kind = "mark_close"
             /\ \A k \in 1..Len(marks) : marks[k].type # CurrentHandler.type)
            => (marks' = marks /\ stack' = stack)
    ]_vars

\* em_close came with no em active, then em_open twice: one em is active.
C17_Witness ==
  /\ phase = "parsing"
  /\ dispatched = 3
  /\ Len(tokens) = 3
  /\ tokens[1].type = "em_close"
  /\ tokens[2].type = "em_open"
  /\ tokens[3].type = "em_open"
  /\ marks = <<MkMark("em", NoAttrs)>>

(* C18: in every state of a parse the active marks hold no two marks of    *)
(* the same type and attrs, and neither do the marks of any text run or    *)
(* node placed in a frame or in the returned document.                     *)
NoDuplicates(set) ==
  \A j, k \in 1..Len(set) : set[j] = set[k] => j = k

RECURSIVE NoDuplicateMarksIn(_)
NoDuplicateMarksIn(nodes) ==
  \A k \in 1..Len(nodes) :
    /\ NoDuplicates(nodes[k].marks)
    /\ NoDuplicateMarksIn(nodes[k].content)

C18_MarkSetsHoldNoDuplicates ==
  /\ NoDuplicates(marks)
  /\ \A k \in 1..Len(stack) : NoDuplicateMarksIn(stack[k].content)
  /\ NoDuplicateMarksIn(<<doc>>)

\* Four marks are active, two of them links with different href, and the
\* text run just added carries the four.
C18_Witness ==
  /\ phase = "parsing"
  /\ Len(marks) = 4
  /\ \E j, k \in 1..Len(marks) :
       j # k /\ marks[j].type = "link" /\ marks[k].type = "link"
  /\ Len(stack) = 2
  /\ stack[2].content # <<>>
  /\ stack[2].content[Len(stack[2].content)].type = "text"
  /\ stack[2].content[Len(stack[2].content)].marks = marks

(* C19: for a sequence without unmatched close made of block open and      *)
(* close, mark open and close, inline, text and softbreak tokens, the text *)
(* of the text runs of the returned tree, read in document order, is the   *)
(* contents of the text tokens in the order they were consumed, inline     *)
(* children included, a softbreak counting as one newline: nothing is      *)
(* lost, doubled or moved.                                                 *)
OnlyBlocksMarksAndText(flat) ==
  \A n \in 1..Len(flat) :
    Lookup(Table, flat[n].type).kind
      \in {"block_open", "block_close", "mark_open", "mark_close",
           "inline", "text", "softbreak"}

\* The text the text and softbreak tokens of flat carry, in order.
RECURSIVE TokenText(_)
TokenText(flat) ==
  IF flat = <<>> THEN <<>>
  ELSE (CASE Lookup(Table, Head(flat).type).kind = "text" -> Head(flat).content
          [] Lookup(Table, Head(flat).type).kind = "softbreak" -> <<"\n">>
          [] OTHER -> <<>>)
       \o TokenText(Tail(flat))

\* The text of the text runs under nodes, in document order.
RECURSIVE TreeText(_)
TreeText(nodes) ==
  IF nodes = <<>> THEN <<>>
  ELSE (IF Head(nodes).type = "text" THEN Head(nodes).text
        ELSE TreeText(Head(nodes).content))
       \o TreeText(Tail(nodes))

\* The text held by the frames, bottom frame first: a frame's children come
\* before those of the frame above it.
RECURSIVE StackText(_)
StackText(frames) ==
  IF frames = <<>> THEN <<>>
  ELSE TreeText(Head(frames).content) \o StackText(Tail(frames))

C19_TextIsKeptInOrder ==
  (/\ phase \in {"parsing", "unwinding", "returned", "failed"}
   /\ tokenTypes # 0
   /\ NoUnmatchedClose(Flatten(tokens))
   /\ OnlyBlocksMarksAndText(Flatten(tokens)))
  => /\ error = NoError
     /\ (phase \in {"parsing", "unwinding"} /\ closes = 0) =>
          StackText(stack) = TokenText(Consumed)
     /\ phase = "returned" =>
          /\ doc.type = "doc"
          /\ TreeText(<<doc>>) = TokenText(Flatten(tokens))

\* The returned tree of the sequence whose text runs merge and split: its
\* text is that of the five text and softbreak tokens, in their order.
C19_Witness ==
  /\ phase = "returned"
  /\ Len(tokens) = 7
  /\ OnlyBlocksMarksAndText(Flatten(tokens))
  /\ Len(doc.content) = 3
  /\ TreeText(<<doc>>) = <<"a", "b", "a", "\n", "b">>

(* C20: while tokens are consumed the stack holds one frame, plus one for  *)
(* every block open token consumed, less one for every block close token   *)
(* consumed; the code-block handler and the text, mark and leaf tokens     *)
(* leave the number of frames as it was.  After a well-matched sequence    *)
(* the stack holds the root frame only and the forced unwind makes exactly *)
(* one closeNode call.                                                     *)

\* How many tokens of flat have a handler of the given kind.
RECURSIVE CountKind(_, _)
CountKind(flat, kind) ==
  IF flat = <<>> THEN 0
  ELSE (IF Lookup(Table, Head(flat).type).kind = kind THEN 1 ELSE 0)
       + CountKind(Tail(flat), kind)

C20_DepthIsOnePlusOpensLessCloses ==
  /\ (phase \in {"parsing", "unwinding"} /\ closes = 0) =>
       Len(stack) = 1 + CountKind(Consumed, "block_open")
                      - CountKind(Consumed, "block_close")
  /\ (/\ phase \in {"unwinding", "returned", "failed"}
      /\ tokenTypes # 0
      /\ error.kind # "unsupported"
      /\ WellMatched(Flatten(tokens)))
     => /\ error = NoError
        /\ Len(stackAtEnd) = 1
        /\ stackAtEnd[1].type = "doc"
        /\ phase = "unwinding" => (closes = 0 /\ stack = stackAtEnd)
        /\ phase = "returned" => (closes = 1 /\ stack = <<>>)

\* A code block inside a paragraph that was opened and closed: the unwind
\* found the root frame alone and closed it in one call.
C20_Witness ==
  /\ phase = "returned"
  /\ closes = 1
  /\ Len(tokens) = 3
  /\ tokens[1].type = "paragraph_open"
  /\ tokens[2].type = "code_block"
  /\ tokens[3].type = "paragraph_close"
  /\ Len(stackAtEnd) = 1
  /\ maxFrames = 3

==========================================================================
